---- MODULE Spec2Model ----
(***************************************************************************)
(* Model of MADS-DAV/src/wa_analyzer/preprocess.py:                        *)
(*   WhatsappPreprocessor.normalize_author  (pure string function)         *)
(*   WhatsappPreprocessor.process           (single pass over the lines)   *)
(*                                                                         *)
(* Strings are sequences of characters; a character is a one-symbol name.  *)
(* The three regular expressions and the datetime format live in the       *)
(* configuration, so a line is given by what they yield on it: whether the *)
(* timestamp pattern matches, whether strptime accepts the capture, and    *)
(* the message and author captures (or their absence).                     *)
(***************************************************************************)
EXTENDS Integers, Sequences, FiniteSets, TLC

\* ------------------------------------------------------------------ bounds
MaxLines == 3      \* lines in the transcript
MaxTime == 2       \* distinct parsed timestamps 1..MaxTime
MaxNameLen == 3    \* length of the strings given to normalize_author
MaxDeviceLen == 3  \* length of the --device strings
MaxPseudonym == 2  \* pseudonyms 1..MaxPseudonym, numbered in their sorted order

\* -------------------------------------------------------------- characters
ZeroWidth == {"ZWSP", "ZWNJ", "ZWJ", "BOM"}          \* U+200B..U+200D, U+FEFF
TildeChars == {"~", "TILDEOP"}                       \* '~', U+223C
\* str.isspace() and the regex class \s on the characters of the model
IsSpace(c) == c \in {" ", "NBSP", "NNBSP", "LF"}

\* ---------------------------------------------------------- str primitives
RECURSIVE LStrip(_)
LStrip(s) == IF s = <<>> THEN s
             ELSE IF IsSpace(Head(s)) THEN LStrip(Tail(s)) ELSE s

RECURSIVE RStrip(_)
RStrip(s) == IF s = <<>> THEN s
             ELSE IF IsSpace(s[Len(s)]) THEN RStrip(SubSeq(s, 1, Len(s) - 1)) ELSE s

\* str.strip()
Strip(s) == RStrip(LStrip(s))

\* the filter by equality instead of containment: author == drop_author
Contains_Equal(hay, needle) == hay = needle

\* needle in hay
Contains(hay, needle) ==
    \E i \in 0..(Len(hay) - Len(needle)) : SubSeq(hay, i + 1, i + Len(needle)) = needle

\* ------------------------------------------------------- normalize_author
\* unicodedata.normalize("NFKC", .) on one character of the model's alphabet
NFKCChar(c) == CASE c = "NBSP" -> " "
                 [] c = "NNBSP" -> " "
                 [] c = "FWTILDE" -> "~"
                 [] OTHER -> c

NFKC(s) == [k \in 1..Len(s) |-> NFKCChar(s[k])]

\* the class without U+FEFF: re.sub(r"[U+200B-U+200D]", "", s)
RECURSIVE RemoveZeroWidth_NoBOM(_)
RemoveZeroWidth_NoBOM(s) == IF s = <<>> THEN s
                            ELSE IF Head(s) \in ZeroWidth \ {"BOM"} THEN RemoveZeroWidth_NoBOM(Tail(s))
                            ELSE <<Head(s)>> \o RemoveZeroWidth_NoBOM(Tail(s))

\* re.sub(r"[U+200B-U+200D U+FEFF]", "", s)
RECURSIVE RemoveZeroWidth(_)
RemoveZeroWidth(s) == IF s = <<>> THEN s
                      ELSE IF Head(s) \in ZeroWidth THEN RemoveZeroWidth(Tail(s))
                      ELSE <<Head(s)>> \o RemoveZeroWidth(Tail(s))

\* s.replace(NBSP, " ").replace(NNBSP, " ")
ReplaceNBSP(s) == [k \in 1..Len(s) |-> IF s[k] \in {"NBSP", "NNBSP"} THEN " " ELSE s[k]]

\* re.sub(r"^[~ U+223C]\s*", "", s): one leading tilde and the whitespace after it
StripLeadingTilde(s) == IF s # <<>> /\ Head(s) \in TildeChars THEN LStrip(Tail(s)) ELSE s

\* re.sub(r"\s+", " ", s)
RECURSIVE CollapseWhitespace(_)
CollapseWhitespace(s) == IF s = <<>> THEN s
                         ELSE IF IsSpace(Head(s)) THEN <<" ">> \o CollapseWhitespace(LStrip(s))
                         ELSE <<Head(s)>> \o CollapseWhitespace(Tail(s))

normalize_author(name) ==
    Strip(CollapseWhitespace(StripLeadingTilde(ReplaceNBSP(RemoveZeroWidth(NFKC(name))))))

\* ------------------------------------------------------------------ input
NameAlphabet == {"~", "TILDEOP", "FWTILDE", " ", "NBSP", "ZWSP", "BOM", "a"}

RECURSIVE StringsOfLen(_)
StringsOfLen(n) == IF n = 0 THEN {<<>>}
                   ELSE {<<c>> \o s : c \in NameAlphabet, s \in StringsOfLen(n - 1)}

\* "~<NBSP>Jane<ZWSP> Doe"
JaneDoe == <<"~", "NBSP", "J", "a", "n", "e", "ZWSP", " ", "D", "o", "e">>

Names == UNION {StringsOfLen(n) : n \in 0..MaxNameLen} \cup {JaneDoe}

Times == 1..MaxTime

\* a line the timestamp pattern does not match
TextLine(t) == [kind |-> "text", text |-> t, parses |-> FALSE, time |-> 1,
                hasMsg |-> FALSE, msgCap |-> <<>>, hasAuthor |-> FALSE, authorCap |-> <<>>]

\* a line the timestamp pattern matches
TsLine(p, t, hm, m, ha, a) == [kind |-> "ts", text |-> <<>>, parses |-> p, time |-> t,
                               hasMsg |-> hm, msgCap |-> m, hasAuthor |-> ha, authorCap |-> a]

TextLines == {TextLine(<<" ", "w", "LF">>), TextLine(<<"LF">>)}

BadTimestampLines == {TsLine(FALSE, 1, TRUE, <<"h">>, TRUE, <<"a">>)}

NoMessageLines == {TsLine(TRUE, t, FALSE, <<>>, TRUE, <<"a">>) : t \in Times}

NoAuthorLines == {TsLine(TRUE, t, TRUE, <<"h">>, FALSE, <<>>) : t \in Times}

FullLines == {TsLine(TRUE, t, TRUE, <<"h">>, TRUE, <<"a", " ">>) : t \in Times}
             \cup {TsLine(TRUE, t, TRUE, <<" ", "i", " ">>, TRUE, <<"~", "NBSP", "a", "ZWSP", "b">>) : t \in Times}

LineSet == TextLines \cup BadTimestampLines \cup NoMessageLines \cup NoAuthorLines \cup FullLines

\* the files of n lines
Files(n) == [1..n -> LineSet]

DropSets == {{}, {<<"b">>}}

\* ------------------------------------------------------------------ state
VARIABLES
    lines,          \* f.readlines()
    drop_authors,   \* self.drop_authors
    line_number,    \* number of lines the loop has consumed
    records,        \* list of (timestamp, author, message)
    appended,       \* list of timestamps, one per appended line
    timestamp,      \* local: <<>> while unbound, <<t>> once bound
    author,         \* local: <<>> while unbound, <<name>> once bound
    msg,            \* local: <<>> while unbound, <<text>> once bound
    origin,         \* for each record, the number of the line that created it
    pc,             \* "start", "loop", "done"
    arg,            \* normalize_author: the string given
    results,        \* normalize_author: the results of the successive calls
    device,         \* main: the --device option
    regexes,        \* main: the regexes selected, "unset" before the selection
    humanize,       \* save: <<>>, then <<h>> with h the pseudonym function in use
    calls,          \* save: the arguments of the calls of humanize, in order
    reference,      \* save: the entries of anon_reference.json, in order
    run,            \* which call of process() on the preprocessor this is
    first           \* <<>>, then <<what the first call of process() returned>>

vars == <<lines, drop_authors, line_number, records, appended, timestamp, author, msg,
          origin, pc, arg, results, device, regexes, humanize, calls, reference, run, first>>

normVars == <<arg, results>>
mainVars == <<device, regexes>>
saveVars == <<humanize, calls, reference>>
runVars == <<run, first>>
otherVars == <<mainVars, saveVars, runVars>>
passVars == <<lines, drop_authors, line_number, records, appended, timestamp, author, msg,
              origin, pc>>

\* ------------------------------------------------------------ process()
\* the preprocessor as constructed: the configuration is set, process() not begun
Init ==
    /\ lines = <<>>
    /\ drop_authors \in DropSets
    /\ line_number = 0
    /\ records = <<>>
    /\ appended = <<>>
    /\ timestamp = <<>>
    /\ author = <<>>
    /\ msg = <<>>
    /\ origin = <<>>
    /\ pc = "start"
    /\ arg = <<>>
    /\ results = <<>>
    /\ device = <<>>
    /\ regexes = "unset"
    /\ humanize = <<>>
    /\ calls = <<>>
    /\ reference = <<>>
    /\ run = 1
    /\ first = <<>>

\* records = []; appended = []; the file is read whole with f.readlines()
\* (the file is the same when process() is called again)
ReadLines ==
    /\ pc = "start"
    /\ IF run = 1 THEN \E n \in 0..MaxLines : lines' \in Files(n) ELSE lines' = lines
    /\ records' = <<>>
    /\ appended' = <<>>
    /\ origin' = <<>>
    /\ line_number' = 0
    /\ pc' = "loop"
    /\ UNCHANGED <<drop_authors, timestamp, author, msg>>
    /\ UNCHANGED <<normVars, otherVars>>

\* the line the loop is about to take
HasLine == pc = "loop" /\ line_number < Len(lines)
Line == lines[line_number + 1]

\* any(drop_author in author for drop_author in self.drop_authors)
Dropped(a, drops) == \E d \in drops : Contains(a, d)

\* self.normalize_author(author_.groups()[0].strip()), tabulated over the author
\* captures of the input
NormalizedAuthor == [a \in {l.authorCap : l \in LineSet} |-> normalize_author(Strip(a))]

AuthorOf(l) == NormalizedAuthor[l.authorCap]

\* msg_.groups()[0].strip()
MessageOf(l) == Strip(l.msgCap)

\* a list that grows at the wrong end: records.insert(0, r)
Push_Front(recs, r) == <<r>> \o recs

\* records.append(r)
Push(recs, r) == Append(recs, r)

\* the continuation joined without trimming the line: msg += " " + line
JoinContinuation_Untrimmed(m, text) == m \o <<" ">> \o text

\* msg += " " + line.strip()
JoinContinuation(m, text) == m \o <<" ">> \o Strip(text)

\* the continuation written to the first record: records[0] = ...
Target_First(recs) == 1

\* the index of records[-1]
Target(recs) == Len(recs)

\* the ValueError handled by forgetting the locals
TimestampParseError_Forgets ==
    /\ HasLine
    /\ Line.kind = "ts" /\ ~Line.parses
    /\ timestamp' = <<>>
    /\ line_number' = line_number + 1
    /\ UNCHANGED <<lines, drop_authors, records, appended, author, msg, origin, pc>>
    /\ UNCHANGED <<normVars, otherVars>>

\* the ValueError not caught: the pass ends on the line
TimestampParseError_Raises ==
    /\ HasLine
    /\ Line.kind = "ts" /\ ~Line.parses
    /\ pc' = "raised"
    /\ UNCHANGED <<lines, drop_authors, line_number, records, appended, timestamp, author,
                   msg, origin>>
    /\ UNCHANGED <<normVars, otherVars>>

\* strptime raises ValueError: logged, continue
TimestampParseError ==
    /\ HasLine
    /\ Line.kind = "ts" /\ ~Line.parses
    /\ line_number' = line_number + 1
    /\ UNCHANGED <<lines, drop_authors, records, appended, timestamp, author, msg, origin, pc>>
    /\ UNCHANGED <<normVars, otherVars>>

\* msg_ is None: logged, continue (timestamp is already rebound)
MessageMissing ==
    /\ HasLine
    /\ Line.kind = "ts" /\ Line.parses /\ ~Line.hasMsg
    /\ timestamp' = <<Line.time>>
    /\ line_number' = line_number + 1
    /\ UNCHANGED <<lines, drop_authors, records, appended, author, msg, origin, pc>>
    /\ UNCHANGED <<normVars, otherVars>>

\* author_ is None: logged, continue (timestamp is already rebound)
AuthorMissing ==
    /\ HasLine
    /\ Line.kind = "ts" /\ Line.parses /\ Line.hasMsg /\ ~Line.hasAuthor
    /\ timestamp' = <<Line.time>>
    /\ line_number' = line_number + 1
    /\ UNCHANGED <<lines, drop_authors, records, appended, author, msg, origin, pc>>
    /\ UNCHANGED <<normVars, otherVars>>

\* the filtered author logged but the record appended all the same
SkipAuthor_Appends ==
    /\ HasLine
    /\ Line.kind = "ts" /\ Line.parses /\ Line.hasMsg /\ Line.hasAuthor
    /\ Dropped(AuthorOf(Line), drop_authors)
    /\ timestamp' = <<Line.time>>
    /\ author' = <<AuthorOf(Line)>>
    /\ records' = Push(records, [timestamp |-> Line.time, author |-> AuthorOf(Line),
                                 message |-> MessageOf(Line)])
    /\ origin' = Push(origin, line_number + 1)
    /\ line_number' = line_number + 1
    /\ UNCHANGED <<lines, drop_authors, appended, msg, pc>>
    /\ UNCHANGED <<normVars, otherVars>>

\* the author is in drop_authors: logged, continue (timestamp, author rebound)
SkipAuthor ==
    /\ HasLine
    /\ Line.kind = "ts" /\ Line.parses /\ Line.hasMsg /\ Line.hasAuthor
    /\ Dropped(AuthorOf(Line), drop_authors)
    /\ timestamp' = <<Line.time>>
    /\ author' = <<AuthorOf(Line)>>
    /\ line_number' = line_number + 1
    /\ UNCHANGED <<lines, drop_authors, records, appended, msg, origin, pc>>
    /\ UNCHANGED <<normVars, otherVars>>

\* records.append((timestamp, author, msg))
AppendRecord ==
    /\ HasLine
    /\ Line.kind = "ts" /\ Line.parses /\ Line.hasMsg /\ Line.hasAuthor
    /\ ~Dropped(AuthorOf(Line), drop_authors)
    /\ timestamp' = <<Line.time>>
    /\ author' = <<AuthorOf(Line)>>
    /\ msg' = <<MessageOf(Line)>>
    /\ records' = Push(records, [timestamp |-> Line.time, author |-> AuthorOf(Line),
                                 message |-> MessageOf(Line)])
    /\ origin' = Push(origin, line_number + 1)
    /\ line_number' = line_number + 1
    /\ UNCHANGED <<lines, drop_authors, appended, pc>>
    /\ UNCHANGED <<normVars, otherVars>>

\* the continuation without appended.append(timestamp)
ContinuationLine_Uncounted ==
    /\ HasLine
    /\ Line.kind = "text"
    /\ Len(records) > 0
    /\ msg' = <<JoinContinuation(msg[1], Line.text)>>
    /\ records' = [records EXCEPT ![Target(records)] =
                      [timestamp |-> timestamp[1], author |-> author[1],
                       message |-> JoinContinuation(msg[1], Line.text)]]
    /\ line_number' = line_number + 1
    /\ UNCHANGED <<lines, drop_authors, appended, timestamp, author, origin, pc>>
    /\ UNCHANGED <<normVars, otherVars>>

\* elif len(records) > 0: the line is appended to the locals' message and
\* records[-1] is rebuilt from the locals
ContinuationLine ==
    /\ HasLine
    /\ Line.kind = "text"
    /\ Len(records) > 0
    /\ appended' = Append(appended, timestamp[1])
    /\ msg' = <<JoinContinuation(msg[1], Line.text)>>
    /\ records' = [records EXCEPT ![Target(records)] =
                      [timestamp |-> timestamp[1], author |-> author[1],
                       message |-> JoinContinuation(msg[1], Line.text)]]
    /\ line_number' = line_number + 1
    /\ UNCHANGED <<lines, drop_authors, timestamp, author, origin, pc>>
    /\ UNCHANGED <<normVars, otherVars>>

\* the appended line counted outside the guard on records
PreambleLine_Counted ==
    /\ HasLine
    /\ Line.kind = "text"
    /\ Len(records) = 0
    /\ appended' = Append(appended, 0)
    /\ line_number' = line_number + 1
    /\ UNCHANGED <<lines, drop_authors, records, timestamp, author, msg, origin, pc>>
    /\ UNCHANGED <<normVars, otherVars>>

\* neither branch: a line before the first record
PreambleLine ==
    /\ HasLine
    /\ Line.kind = "text"
    /\ Len(records) = 0
    /\ line_number' = line_number + 1
    /\ UNCHANGED <<lines, drop_authors, records, appended, timestamp, author, msg, origin, pc>>
    /\ UNCHANGED <<normVars, otherVars>>

\* the loop is over: the counts are logged and (records, appended) returned
Finish ==
    /\ pc = "loop"
    /\ line_number = Len(lines)
    /\ pc' = "done"
    /\ UNCHANGED <<lines, drop_authors, line_number, records, appended, timestamp, author,
                   msg, origin>>
    /\ UNCHANGED <<normVars, otherVars>>

Next ==
    \/ ReadLines
    \/ TimestampParseError
    \/ MessageMissing
    \/ AuthorMissing
    \/ SkipAuthor
    \/ AppendRecord
    \/ ContinuationLine
    \/ PreambleLine
    \/ Finish

Spec == Init /\ [][Next]_vars

\* the loop is sequential: an enabled step is taken
FairSpec == Init /\ [][Next]_vars /\ WF_vars(Next)

\* ------------------------------------------- normalize_author, called twice
NormInit ==
    /\ arg \in Names
    /\ results = <<>>
    /\ lines = <<>>
    /\ drop_authors = {}
    /\ line_number = 0
    /\ records = <<>>
    /\ appended = <<>>
    /\ timestamp = <<>>
    /\ author = <<>>
    /\ msg = <<>>
    /\ origin = <<>>
    /\ pc = "done"
    /\ device = <<>>
    /\ regexes = "unset"
    /\ humanize = <<>>
    /\ calls = <<>>
    /\ reference = <<>>
    /\ run = 1
    /\ first = <<>>

Normalize ==
    /\ Len(results) < 2
    /\ results' = Append(results,
                         normalize_author(IF results = <<>> THEN arg ELSE results[Len(results)]))
    /\ UNCHANGED arg
    /\ UNCHANGED passVars
    /\ UNCHANGED otherVars

NormNext == Normalize

NormSpec == NormInit /\ [][NormNext]_vars

\* ------------------------------------------- process(), called a second time
\* the locals kept on the preprocessor, so that they outlive the call
ProcessAgain_KeepsLocals ==
    /\ pc = "done"
    /\ run = 1
    /\ run' = 2
    /\ first' = <<[records |-> records, appended |-> appended]>>
    /\ pc' = "start"
    /\ UNCHANGED <<lines, drop_authors, line_number, records, appended, timestamp, author,
                   msg, origin>>
    /\ UNCHANGED <<normVars, mainVars, saveVars>>

\* the first call has returned (records, appended); process() is entered again,
\* with the locals of the new call unbound
ProcessAgain ==
    /\ pc = "done"
    /\ run = 1
    /\ run' = 2
    /\ first' = <<[records |-> records, appended |-> appended]>>
    /\ pc' = "start"
    /\ timestamp' = <<>>
    /\ author' = <<>>
    /\ msg' = <<>>
    /\ UNCHANGED <<lines, drop_authors, line_number, records, appended, origin>>
    /\ UNCHANGED <<normVars, mainVars, saveVars>>

TwiceNext == Next \/ ProcessAgain

TwiceSpec == Init /\ [][TwiceNext]_vars

\* ------------------------------------------------------------------ save()
\* the authors a record can carry
KnownAuthors == {AuthorOf(l) : l \in FullLines}

\* what humanize can return; the numbers stand for the strings in sorted order
Pseudonyms == 1..MaxPseudonym

\* humanize called for every record: df["author"].tolist()
Unique_None(seq) == seq

\* Series.unique(): the distinct values in order of first appearance
RECURSIVE Unique(_)
Unique(seq) ==
    IF seq = <<>> THEN <<>>
    ELSE LET rest == Unique(SubSeq(seq, 1, Len(seq) - 1))
             x == seq[Len(seq)]
         IN  IF \E k \in 1..Len(rest) : rest[k] = x THEN rest ELSE Append(rest, x)

\* df["author"].dropna().unique().tolist()
AuthorsOf(recs) == Unique([k \in 1..Len(recs) |-> recs[k].author])

\* ref = {v: k for k, v in anon.items()}: a later author replaces an earlier
\* one with the same pseudonym
Ref(h, authors) ==
    [p \in {h[authors[k]] : k \in 1..Len(authors)} |->
        authors[CHOOSE k \in 1..Len(authors) :
                   /\ h[authors[k]] = p
                   /\ \A j \in 1..Len(authors) : h[authors[j]] = p => j <= k]]

\* the keys from the largest down: sorted(ref.keys(), reverse=True)
RECURSIVE Sorted_Descending(_)
Sorted_Descending(S) ==
    IF S = {} THEN <<>>
    ELSE LET m == CHOOSE x \in S : \A y \in S : y <= x
         IN  <<m>> \o Sorted_Descending(S \ {m})

\* sorted(ref.keys())
RECURSIVE Sorted(_)
Sorted(S) ==
    IF S = {} THEN <<>>
    ELSE LET m == CHOOSE x \in S : \A y \in S : x <= y
         IN  <<m>> \o Sorted(S \ {m})

\* json.dump({k: ref[k] for k in sorted(ref.keys())}, ...)
Reference(h, authors) ==
    LET ref == Ref(h, authors)
        keys == Sorted(DOMAIN ref)
    IN  [i \in 1..Len(keys) |-> [pseudonym |-> keys[i], author |-> ref[keys[i]]]]

\* save(records), with h the pseudonym function in use
Save ==
    /\ pc = "done"
    /\ \E h \in [KnownAuthors -> Pseudonyms] :
          /\ humanize' = <<h>>
          /\ calls' = AuthorsOf(records)
          /\ reference' = Reference(h, AuthorsOf(records))
    /\ pc' = "saved"
    /\ UNCHANGED <<lines, drop_authors, line_number, records, appended, timestamp, author,
                   msg, origin>>
    /\ UNCHANGED <<normVars, mainVars, runVars>>

\* __call__: process(), then save()
CallNext == Next \/ Save

CallSpec == Init /\ [][CallNext]_vars

\* ----------------------------------------------- main: the regexes selected
\* str.lower() on the letters of the model
LowerChar(c) == CASE c = "A" -> "a" [] c = "C" -> "c" [] c = "D" -> "d" [] c = "I" -> "i"
                  [] c = "L" -> "l" [] c = "N" -> "n" [] c = "O" -> "o" [] c = "R" -> "r"
                  [] c = "S" -> "s" [] c = "V" -> "v" [] OTHER -> c

\* the comparison made case-sensitive: device == "ios"
Lower_None(s) == s

\* device.lower()
Lower(s) == [k \in 1..Len(s) |-> LowerChar(s[k])]

\* the if / elif / else chain of main
SelectRegexes(d) ==
    IF Lower(d) = <<"i", "o", "s">> THEN "ios"
    ELSE IF Lower(d) = <<"o", "l", "d">> THEN "old"
    ELSE IF Lower(d) = <<"c", "s", "v">> THEN "csv"
    ELSE "android"

DeviceAlphabet == {"i", "o", "s", "l", "d", "c", "v", "I", "O", "S", "L", "D", "C", "V"}

RECURSIVE DevicesOfLen(_)
DevicesOfLen(n) == IF n = 0 THEN {<<>>}
                   ELSE {<<c>> \o d : c \in DeviceAlphabet, d \in DevicesOfLen(n - 1)}

Devices == UNION {DevicesOfLen(n) : n \in 0..MaxDeviceLen}
           \cup {<<"a", "n", "d", "r", "o", "i", "d">>, <<"A", "n", "d", "r", "o", "i", "d">>,
                 <<"A", "N", "D", "R", "O", "I", "D">>}

MainInit ==
    /\ device \in Devices
    /\ regexes = "unset"
    /\ lines = <<>>
    /\ drop_authors = {}
    /\ line_number = 0
    /\ records = <<>>
    /\ appended = <<>>
    /\ timestamp = <<>>
    /\ author = <<>>
    /\ msg = <<>>
    /\ origin = <<>>
    /\ pc = "main"
    /\ arg = <<>>
    /\ results = <<>>
    /\ humanize = <<>>
    /\ calls = <<>>
    /\ reference = <<>>
    /\ run = 1
    /\ first = <<>>

Select ==
    /\ pc = "main"
    /\ regexes = "unset"
    /\ regexes' = SelectRegexes(device)
    /\ UNCHANGED <<device, passVars, normVars, saveVars, runVars>>

MainNext == Select

MainSpec == MainInit /\ [][MainNext]_vars

\* ================================================================ claims
Last(seq) == seq[Len(seq)]

\* what process() does with a timestamp line, read off the line alone
IsBadTimestamp(l) == l.kind = "ts" /\ ~l.parses
IsExtractionFailure(l) == l.kind = "ts" /\ l.parses /\ (~l.hasMsg \/ ~l.hasAuthor)
IsComplete(l) == l.kind = "ts" /\ l.parses /\ l.hasMsg /\ l.hasAuthor
IsFiltered(l) == IsComplete(l) /\ Dropped(AuthorOf(l), drop_authors)
IsAccepted(l) == IsComplete(l) /\ ~Dropped(AuthorOf(l), drop_authors)

\* the step that consumes line number n
Consumes(n) == line_number = n - 1 /\ line_number' = n

\* C1: no record of the output has an author that contains a configured
\* drop-substring, and no continuation line is attributed to such an author.
C1_NoDroppedAuthorInOutput ==
    \A k \in 1..Len(records) : ~Dropped(records[k].author, drop_authors)

\* C2: every record keeps the timestamp and the author it was created with,
\* whatever lines were processed after its creation.
C2_TimestampAuthorFixedAtCreation ==
    \A k \in 1..Len(records) :
        /\ records[k].timestamp = lines[origin[k]].time
        /\ records[k].author = AuthorOf(lines[origin[k]])

\* C3: a continuation line that follows a timestamp line whose author or
\* message extraction failed is appended to the previously accepted record, whose
\* timestamp and author stay as they were before the failed line.
C3_ExtractionFailureKeepsTarget ==
    [][\A n \in 2..Len(lines) :
          (/\ Consumes(n)
           /\ IsExtractionFailure(lines[n - 1])
           /\ lines[n].kind = "text"
           /\ records # <<>>)
          => /\ Len(records') = Len(records)
             /\ Last(records').timestamp = Last(records).timestamp
             /\ Last(records').author = Last(records).author]_vars

\* C4: a timestamp line whose captured timestamp does not parse produces no
\* record and leaves the record list and the remembered timestamp, author and
\* message as they were.
C4_BadTimestampChangesNothing ==
    [][\A n \in 1..Len(lines) :
          (Consumes(n) /\ IsBadTimestamp(lines[n]))
          => UNCHANGED <<records, appended, timestamp, author, msg>>]_vars

C4_Witness ==
    /\ line_number >= 3
    /\ IsAccepted(lines[1])
    /\ IsBadTimestamp(lines[2])
    /\ lines[3].kind = "text"
    /\ Len(records) = 1
    /\ records[1].timestamp = lines[1].time

\* C5: a record created by an accepted line i and followed by the lines
\* i+1..i+k, none matching the timestamp pattern, has the message: trimmed capture
\* of line i, then the trimmed text of each of the k lines, each after one space;
\* and there is one record per accepted line.
RECURSIVE Joined(_, _)
Joined(i, n) == IF n <= i THEN Strip(lines[i].msgCap)
                ELSE Joined(i, n - 1) \o <<" ">> \o Strip(lines[n].text)

BlockEnd(k) == IF k < Len(records) THEN origin[k + 1] - 1 ELSE line_number

C5_ContinuationCorrectness ==
    /\ Len(records) = Cardinality({n \in 1..line_number : IsAccepted(lines[n])})
    /\ \A k \in 1..Len(records) :
          (\A j \in (origin[k] + 1)..BlockEnd(k) : lines[j].kind = "text")
          => records[k].message = Joined(origin[k], BlockEnd(k))

C5_Witness ==
    /\ pc = "done"
    /\ Len(lines) = 3
    /\ IsAccepted(lines[1]) /\ lines[2].kind = "text" /\ IsAccepted(lines[3])
    /\ Len(records) = 2
    /\ records[1].message = <<"h", " ", "w">>
    /\ records[2].message = <<"i">>

\* C7: the records are in the order of the lines that created them, and when
\* the parsed timestamps of the input are non-decreasing by line so are the
\* timestamps of the records.
InputChronological ==
    \A i, j \in 1..Len(lines) :
        (i < j /\ lines[i].kind = "ts" /\ lines[i].parses
               /\ lines[j].kind = "ts" /\ lines[j].parses)
        => lines[i].time <= lines[j].time

C7_OrderPreserved ==
    /\ Len(origin) = Len(records)
    /\ \A k \in 1..(Len(origin) - 1) : origin[k] < origin[k + 1]
    /\ InputChronological
       => \A k \in 1..(Len(records) - 1) : records[k].timestamp <= records[k + 1].timestamp

C7_Witness ==
    /\ pc = "done"
    /\ InputChronological
    /\ Len(records) = 3
    /\ records[1].timestamp < records[3].timestamp

\* C8: while no record has been accepted, a line that does not match the
\* timestamp pattern creates no record, changes no message and is not counted
\* as appended.
C8_PreambleDiscarded ==
    [][\A n \in 1..Len(lines) :
          (Consumes(n) /\ lines[n].kind = "text" /\ records = <<>>)
          => /\ records' = <<>>
             /\ appended' = <<>>
             /\ UNCHANGED <<timestamp, author, msg>>]_vars

C8_Witness ==
    /\ line_number >= 2
    /\ IsFiltered(lines[1])
    /\ lines[2].kind = "text"
    /\ records = <<>>
    /\ appended = <<>>

\* C9: no message of the output ends with whitespace or has two consecutive
\* spaces.
C9_NoDuplicateWhitespace ==
    \A k \in 1..Len(records) :
        LET m == records[k].message IN
        /\ m # <<>> => ~IsSpace(Last(m))
        /\ \A i \in 1..(Len(m) - 1) : ~(m[i] = " " /\ m[i + 1] = " ")

\* C10: the pass takes the lines one at a time in order and ends having
\* exhausted the input, whatever the lines are.
C10_Terminates ==
    /\ [][\/ pc = "start" /\ line_number' = 0 /\ pc' = "loop"
          \/ pc = "loop" /\ line_number' = line_number + 1 /\ pc' = "loop"
          \/ line_number' = line_number /\ line_number = Len(lines) /\ pc' = "done"]_vars
    /\ <>(pc = "done" /\ line_number = Len(lines))

C10_Witness ==
    /\ pc = "done"
    /\ line_number = 3
    /\ IsBadTimestamp(lines[1])
    /\ IsExtractionFailure(lines[2])
    /\ IsFiltered(lines[3])

\* C6: normalize_author applied to its own result gives that result.
C6_Idempotent ==
    Len(results) = 2 => results[2] = results[1]

\* C11: a timestamp line with author and message extracted is dropped
\* exactly when its normalized author has a configured drop-substring somewhere
\* in it; with no drop-substring configured no line is dropped.
IsSubstring(d, a) == \E i, j \in 0..Len(a) : SubSeq(a, i + 1, j) = d

C11_FilterIsContainment ==
    [][\A n \in 1..Len(lines) :
          (Consumes(n) /\ IsComplete(lines[n]))
          => /\ (Len(records') = Len(records))
                   <=> \E d \in drop_authors : IsSubstring(d, AuthorOf(lines[n]))
             /\ Len(records') \in {Len(records), Len(records) + 1}
             /\ drop_authors = {} => Len(records') = Len(records) + 1]_vars

C11_Witness ==
    /\ line_number = 2
    /\ drop_authors = {<<"b">>}
    /\ IsComplete(lines[1]) /\ AuthorOf(lines[1]) = <<"a", "b">>
    /\ IsComplete(lines[2]) /\ AuthorOf(lines[2]) = <<"a">>
    /\ Len(records) = 1
    /\ records[1].author = <<"a">>

\* C14: the number of records is the number of timestamp lines that passed
\* every stage, and the number of appended entries is the number of
\* non-timestamp lines met after a record had been accepted.
C14_CountersExact ==
    /\ Len(records) = Cardinality({n \in 1..line_number : IsAccepted(lines[n])})
    /\ Len(appended) =
          Cardinality({n \in 1..line_number :
                          /\ lines[n].kind = "text"
                          /\ \E m \in 1..(n - 1) : IsAccepted(lines[m])})

C14_Witness ==
    /\ pc = "done"
    /\ Len(lines) = 3
    /\ lines[1].kind = "text" /\ IsAccepted(lines[2]) /\ lines[3].kind = "text"
    /\ Len(records) = 1
    /\ Len(appended) = 1

\* C16: the record sequence grows by exactly one record, made of the parsed
\* timestamp, the normalized author and the trimmed message, on a timestamp line
\* that passes every stage, and keeps its length on every other line.
C16_RecordsOnlyGrow ==
    [][\A n \in 1..Len(lines) :
          Consumes(n)
          => IF IsAccepted(lines[n])
             THEN records' = Append(records, [timestamp |-> lines[n].time,
                                              author |-> AuthorOf(lines[n]),
                                              message |-> Strip(lines[n].msgCap)])
             ELSE Len(records') = Len(records)]_vars

C16_Witness ==
    /\ pc = "done"
    /\ Len(lines) = 3
    /\ IsAccepted(lines[1]) /\ IsFiltered(lines[2]) /\ IsAccepted(lines[3])
    /\ Len(records) = 2

\* C17: processing a line leaves every record but the last as it was, and
\* the last one too unless the line is a continuation line.
C17_OnlyLastRecordMutated ==
    [][\A n \in 1..Len(lines) :
          Consumes(n)
          => /\ \A k \in 1..(Len(records) - 1) : records'[k] = records[k]
             /\ lines[n].kind # "text" => \A k \in 1..Len(records) : records'[k] = records[k]]_vars

C17_Witness ==
    /\ line_number = 3
    /\ IsAccepted(lines[1]) /\ IsAccepted(lines[2]) /\ lines[3].kind = "text"
    /\ Len(records) = 2
    /\ records[1].message = Strip(lines[1].msgCap)
    /\ records[2].message # Strip(lines[2].msgCap)

\* C12: the result of normalize_author has no zero-width character, no
\* no-break space, no whitespace at either end and no two adjacent whitespace
\* characters; its visible characters are those of the input, less one tilde
\* when the input begins with one; "~<NBSP>Jane<ZWSP> Doe" gives "Jane Doe".
IsVisible(c) == c \notin ZeroWidth /\ ~IsSpace(c)
IsNotZeroWidth(c) == c \notin ZeroWidth
Composed(s) == [k \in 1..Len(s) |-> IF s[k] = "FWTILDE" THEN "~" ELSE s[k]]
Visible(s) == SelectSeq(Composed(s), IsVisible)
BeginsWithTilde(s) ==
    LET kept == SelectSeq(Composed(s), IsNotZeroWidth)
    IN  kept # <<>> /\ kept[1] \in {"~", "TILDEOP"}

C12_NormalizedShape ==
    Len(results) >= 1 =>
        LET r == results[1] IN
        /\ \A k \in 1..Len(r) : r[k] \notin ZeroWidth \cup {"NBSP", "NNBSP"}
        /\ r # <<>> => ~IsSpace(r[1]) /\ ~IsSpace(r[Len(r)])
        /\ \A k \in 1..(Len(r) - 1) : ~(IsSpace(r[k]) /\ IsSpace(r[k + 1]))
        /\ Visible(r) = IF BeginsWithTilde(arg) THEN Tail(Visible(arg)) ELSE Visible(arg)
        /\ arg = JaneDoe => r = <<"J", "a", "n", "e", " ", "D", "o", "e">>

C12_Witness ==
    /\ arg = JaneDoe
    /\ Len(results) >= 1
    /\ results[1] = <<"J", "a", "n", "e", " ", "D", "o", "e">>

\* C13: "ios", "old" and "csv" in any letter case select their own regexes,
\* and every other --device string selects the android regexes.
UpperOf(c) == CASE c = "i" -> "I" [] c = "o" -> "O" [] c = "s" -> "S" [] c = "l" -> "L"
                [] c = "d" -> "D" [] c = "c" -> "C" [] c = "v" -> "V" [] OTHER -> c

InAnyCase(d, word) ==
    Len(d) = Len(word) /\ \A k \in 1..Len(word) : d[k] \in {word[k], UpperOf(word[k])}

C13_DialectSelection ==
    regexes # "unset" =>
        /\ regexes \in {"ios", "old", "csv", "android"}
        /\ regexes = "ios" <=> InAnyCase(device, <<"i", "o", "s">>)
        /\ regexes = "old" <=> InAnyCase(device, <<"o", "l", "d">>)
        /\ regexes = "csv" <=> InAnyCase(device, <<"c", "s", "v">>)

C13_Witness ==
    /\ device = <<"C", "s", "V">>
    /\ regexes = "csv"

\* C15: save() calls the pseudonym function exactly once for each distinct
\* author of the output, and only with normalized author strings of the output.
OutputAuthors == {records[k].author : k \in 1..Len(records)}

C15_OneCallPerAuthor ==
    pc = "saved" =>
        /\ \A a \in OutputAuthors : Cardinality({i \in 1..Len(calls) : calls[i] = a}) = 1
        /\ \A i \in 1..Len(calls) : calls[i] \in OutputAuthors
        /\ \A i \in 1..Len(calls) : \E l \in FullLines : calls[i] = normalize_author(Strip(l.authorCap))

C15_Witness ==
    /\ pc = "saved"
    /\ Len(records) = 3
    /\ records[1].author = records[3].author
    /\ records[2].author # records[1].author
    /\ Len(calls) = 2

\* C19 as claimed: the reference has exactly one entry per distinct author of
\* the output, from the author's pseudonym to the author, in the order of the
\* pseudonyms, whatever the pseudonym function.
SortedByPseudonym ==
    \A i \in 1..(Len(reference) - 1) : reference[i].pseudonym < reference[i + 1].pseudonym

C19_OneEntryPerAuthor ==
    pc = "saved" =>
        /\ Len(reference) = Cardinality(OutputAuthors)
        /\ \A a \in OutputAuthors :
              \E i \in 1..Len(reference) :
                  reference[i] = [pseudonym |-> humanize[1][a], author |-> a]
        /\ SortedByPseudonym

\* C19 amended: the reference has exactly one entry per distinct pseudonym of
\* the output's authors, from the pseudonym to the author with that pseudonym
\* that appears last among them in the output, in the order of the
\* pseudonyms; it has one entry per author when no two authors of the output
\* share a pseudonym.
FirstRecordOf(a) == CHOOSE k \in 1..Len(records) :
                        records[k].author = a /\ \A j \in 1..(k - 1) : records[j].author # a

C19_OneEntryPerPseudonym ==
    pc = "saved" =>
        LET h == humanize[1] IN
        /\ {reference[i].pseudonym : i \in 1..Len(reference)} = {h[a] : a \in OutputAuthors}
        /\ SortedByPseudonym
        /\ \A i \in 1..Len(reference) :
              /\ reference[i].author \in OutputAuthors
              /\ h[reference[i].author] = reference[i].pseudonym
              /\ \A b \in OutputAuthors :
                    h[b] = reference[i].pseudonym
                    => FirstRecordOf(b) <= FirstRecordOf(reference[i].author)
        /\ (\A a, b \in OutputAuthors : h[a] = h[b] => a = b)
           => /\ Len(reference) = Cardinality(OutputAuthors)
              /\ \A a \in OutputAuthors :
                    \E i \in 1..Len(reference) :
                        reference[i] = [pseudonym |-> h[a], author |-> a]

C19_Witness ==
    /\ pc = "saved"
    /\ Len(calls) = 2
    /\ humanize[1][calls[1]] > humanize[1][calls[2]]
    /\ reference = <<[pseudonym |-> humanize[1][calls[2]], author |-> calls[2]],
                     [pseudonym |-> humanize[1][calls[1]], author |-> calls[1]]>>

\* C18: a second call of process() on the same preprocessor and the same
\* file returns the records and the appended list of the first call, and at
\* every point of the second call the records and the remembered timestamp,
\* author and message come from lines the second call has consumed.
C18_NoStateSurvivesRun ==
    run = 2 =>
        /\ pc = "done" => records = first[1].records /\ appended = first[1].appended
        /\ pc = "start" => timestamp = <<>> /\ author = <<>> /\ msg = <<>>
        /\ pc = "loop" =>
              /\ Len(records) <= line_number
              /\ timestamp # <<>> =>
                    \E n \in 1..line_number : lines[n].kind = "ts" /\ lines[n].parses
                                              /\ lines[n].time = timestamp[1]
              /\ author # <<>> =>
                    \E n \in 1..line_number : IsComplete(lines[n]) /\ AuthorOf(lines[n]) = author[1]
              /\ msg # <<>> => \E n \in 1..line_number : IsAccepted(lines[n])

C18_Witness ==
    /\ run = 2
    /\ pc = "done"
    /\ Len(lines) = 3
    /\ Len(records) = 2
    /\ Len(appended) = 1
    /\ records = first[1].records

====
